---- MODULE Spec2Model ----
(***************************************************************************)
(* geyser-grpc-connector: the fastest-wins multiplexer                     *)
(* (src/src/grpcmultiplex_fastestwins.rs).                                 *)
(*                                                                         *)
(* create_multiplex builds one reconnecting connector per source, merges   *)
(* them with SelectAll and pipes the merged items through filter_blocks.   *)
(* A connector is a generator around a ConnectionState; every turn of its  *)
(* loop yields one Option<SubscribeUpdate>.  The merge holds no buffer: an *)
(* item yielded by a connector is handed to filter_blocks in the same poll,*)
(* so one action below is one turn of a connector's loop together with the *)
(* filter's handling of the item it yields.  The connect task runs on the  *)
(* tokio runtime, independently of the polling of the stream.              *)
(*                                                                         *)
(* channelize_stream (src/src/grpc_stream_utils.rs) is the broadcast       *)
(* fanout: a forwarder task that sends the items of a source stream into a *)
(* tokio broadcast channel, and the receivers of that channel.  It is      *)
(* generic in its source, and is specified on its own (SpecFanout).        *)
(***************************************************************************)
EXTENDS Integers, Sequences, FiniteSets, TLC

\* Bounds of the model.
NumSources == 2
MaxSlot == 2
MaxArrivals == 3

NumReceivers == 2
MaxItems == 5

\* The capacity asked of the broadcast channel: channel::<T>(1000), scaled down
\* to the smallest capacity that, like 1000, is not a power of two.
Capacity == 3

\* sleep(Duration::from_secs(1)) of WaitReconnect; the clock ticks in seconds.
BackoffSecs == 1

Sources == 1..NumSources
Receivers == 1..NumReceivers
Commitments == {"Processed", "Confirmed", "Finalized"}
Extractors == {"ExtractBlock", "ExtractBlockMeta"}
ConnectionState == {"NotConnected", "Connecting", "Ready", "WaitReconnect"}
TaskStates == {"none", "connecting", "subscribing", "ok", "err", "fault"}

VARIABLES
    pc,                 \* "Init", "Running", "Panicked", "Dropped"
    panic_msg,          \* the message of the panic, "" when there is none
    grpc_sources,       \* create_multiplex's argument: the number of sources
    commitment_config,  \* create_multiplex's argument
    extractor,          \* create_multiplex's argument
    futures,            \* the connectors pushed into the SelectAll
    state,              \* per source: the connector's ConnectionState
    task,               \* per source: the spawned connect task and its output
    timer,              \* per source: the sleep of WaitReconnect; -1: none
    sinceSub,           \* per source: seconds since its last subscribe call,
                        \*   saturating at BackoffSecs; -1: no call yet
    up,                 \* per source: whether the upstream is healthy
    active,             \* per source: live upstream subscriptions
    current_slot,       \* filter_blocks' current_slot
    out,                \* the blocks filter_blocks has yielded
    delivered,          \* the Some(update) items that reached the filter
    scripted,           \* whether the upstreams of this run follow a script
    feed,               \* per source: the slots its upstream has yet to send
    last_yield,         \* scripted runs: the item the merge was handed last
    fwd,                \* channelize_stream: "idle", "running", "panicked"
    consumed,           \* the items the forwarder has taken from its source
    chan,               \* the items the broadcast channel has accepted
    rx,                 \* per receiver: attached or gone, the position in chan
                        \*   it started from and the one it reads next, and
                        \*   the items consumed before it was attached
    recv_log            \* per receiver: what its recv calls returned

vars == <<pc, panic_msg, grpc_sources, commitment_config, extractor, futures,
          state, task, timer, sinceSub, up, active, current_slot, out,
          delivered, scripted, feed, last_yield, fwd, consumed, chan, rx, recv_log>>

cfgVars == <<grpc_sources, commitment_config, extractor, scripted>>
filterVars == <<current_slot, out, delivered, last_yield>>
fanVars == <<fwd, consumed, chan, rx, recv_log>>
muxVars == <<pc, panic_msg, cfgVars, futures, state, task, timer, sinceSub, up,
             active, filterVars, feed>>

----------------------------------------------------------------------------
\* Items and updates

UpdateKinds == {"Block", "BlockMeta"}

Update(k, n) == [some |-> TRUE, kind |-> k, slot |-> n]

NoneItem == [some |-> FALSE, kind |-> "None", slot |-> 0]

Updates == {Update(k, n) : k \in UpdateKinds, n \in 1..MaxSlot}

NoBlock == [some |-> FALSE, slot |-> 0, block |-> NoneItem]

\* A receiver that does not exist yet.
NoReceiver ==
    [attached |-> FALSE, gone |-> FALSE, from |-> 0, next |-> 0, since |-> 0]

\* The two sources of the worked example of the multiplexer.
ScriptA == <<100, 102, 104>>
ScriptB == <<101, 102, 103, 105>>

ScriptShort == <<1, 2>>

ScriptSlots == (1..MaxSlot) \cup (100..105)

\* No item has been handed to the merge yet.
NoYield == [src |-> 0, item |-> NoneItem, n |-> 0]

\* ExtractBlockFromStream::extract of ExtractBlock and ExtractBlockMeta: the
\* update of the extractor's variant whose slot is above current_slot, with
\* that slot reported as the new slot.
ExtractedKind(e) == IF e = "ExtractBlock" THEN "Block" ELSE "BlockMeta"

extract(e, update, cur) ==
    IF update.kind = ExtractedKind(e) /\ update.slot > cur
    THEN [some |-> TRUE, slot |-> update.slot, block |-> update]
    ELSE NoBlock

\* The largest slot source s has delivered so far.
RECURSIVE LastSlotIn(_, _)
LastSlotIn(log, s) ==
    IF log = <<>> THEN 0
    ELSE LET e == log[Len(log)]
         IN IF e.src = s THEN e.slot
            ELSE LastSlotIn(SubSeq(log, 1, Len(log) - 1), s)

\* What the subscription of source s may yield next: its slots never decrease.
\* On a scripted run it is the next block of the source's script.
NextUpdates(s) ==
    IF scripted
    THEN IF feed[s] = <<>> THEN {}
         ELSE {Update(ExtractedKind(extractor), Head(feed[s]))}
    ELSE {u \in Updates : u.slot >= LastSlotIn(delivered, s)}

\* The script of source s once its upstream has sent an update.
FeedAfter(s) == IF scripted THEN [feed EXCEPT ![s] = Tail(@)] ELSE feed

----------------------------------------------------------------------------
\* filter_blocks

\* Variants of the filter that a slip in filter_blocks would give: current_slot
\* never assigned; current_slot taken from every update; every update yielded.
SlotAfterStale(item) == current_slot

SlotAfterEager(item) == IF item.some THEN item.slot ELSE current_slot

OutAfterEvery(s, item, at) ==
    IF item.some
    THEN Append(out, [slot |-> item.slot, src |-> s, at |-> at])
    ELSE out

\* Variant: a block of the current slot is yielded again.
OutAfterRepeat(s, item, at) ==
    IF item.some /\ item.kind = ExtractedKind(extractor)
                 /\ item.slot >= current_slot
    THEN Append(out, [slot |-> item.slot, src |-> s, at |-> at])
    ELSE out

\* current_slot after the filter has handled `item`.
SlotAfter(item) ==
    IF item.some /\ extract(extractor, item, current_slot).some
    THEN extract(extractor, item, current_slot).slot
    ELSE current_slot

\* The blocks yielded after the filter has handled `item` of source s, which is
\* entry `at` of the items that reached it.
OutAfter(s, item, at) ==
    IF item.some /\ extract(extractor, item, current_slot).some
    THEN Append(out, [slot |-> extract(extractor, item, current_slot).block.slot,
                      src |-> s, at |-> at])
    ELSE out

\* One item of the merged stream, yielded by the connector of s.
Yield(s, item) ==
    /\ delivered' = IF item.some
                    THEN Append(delivered, [src |-> s, kind |-> item.kind,
                                            slot |-> item.slot])
                    ELSE delivered
    /\ current_slot' = SlotAfter(item)
    /\ out' = OutAfter(s, item, Len(delivered) + 1)
    /\ last_yield' = IF scripted
                     THEN [src |-> s, item |-> item, n |-> 1 - last_yield.n]
                     ELSE last_yield

----------------------------------------------------------------------------
\* Nothing built yet: no connector, no task, no subscription, no item.
InitConnectors ==
    /\ pc = "Init"
    /\ panic_msg = ""
    /\ futures = {}
    /\ state = [s \in Sources |-> "NotConnected"]
    /\ task = [s \in Sources |-> "none"]
    /\ timer = [s \in Sources |-> -1]
    /\ sinceSub = [s \in Sources |-> -1]
    /\ up = [s \in Sources |-> TRUE]
    /\ active = [s \in Sources |-> 0]
    /\ current_slot = 0
    /\ out = <<>>
    /\ delivered = <<>>
    /\ last_yield = NoYield

\* channelize_stream has not been called.
InitFanoutIdle ==
    /\ fwd = "idle"
    /\ consumed = 0
    /\ chan = <<>>
    /\ rx = [r \in Receivers |-> NoReceiver]
    /\ recv_log = [r \in Receivers |-> <<>>]

Init ==
    /\ grpc_sources \in 0..NumSources
    /\ commitment_config \in Commitments
    /\ extractor \in Extractors
    /\ scripted = FALSE
    /\ feed = [s \in Sources |-> <<>>]
    /\ InitConnectors
    /\ InitFanoutIdle

----------------------------------------------------------------------------
\* create_multiplex

\* Variant: the length of the source list is not checked.
SourcesOkAny(n) == TRUE

CommitmentSupported(c) == c \in {"Confirmed", "Finalized"}

SourcesOk(n) == n >= 1

\* create_geyser_reconnecting_stream maps the commitment before it builds the
\* generator, and panics on any other level.
CommitmentMapped(c) == c \in {"Confirmed", "Finalized"}

create_multiplex ==
    /\ pc = "Init"
    /\ IF ~CommitmentSupported(commitment_config)
       THEN /\ pc' = "Panicked"
            /\ panic_msg' = "Only CONFIRMED and FINALIZED is supported"
            /\ futures' = {}
       ELSE IF ~SourcesOk(grpc_sources)
       THEN /\ pc' = "Panicked"
            /\ panic_msg' = "Must have at least one source"
            /\ futures' = {}
       ELSE IF grpc_sources >= 1 /\ ~CommitmentMapped(commitment_config)
       THEN /\ pc' = "Panicked"
            /\ panic_msg' = "Only CONFIRMED and FINALIZED is supported/suggested"
            /\ futures' = {}
       ELSE /\ pc' = "Running"
            /\ panic_msg' = ""
            /\ futures' = 1..grpc_sources
    /\ UNCHANGED <<cfgVars, feed, fanVars, state, task, timer, sinceSub, up, active, filterVars>>

----------------------------------------------------------------------------
\* create_geyser_reconnecting_stream: the turns of one connector's loop

\* Variant: a connector that awaits its task or its sleep holds up the others.
PolledInTurn(s) ==
    /\ pc = "Running"
    /\ s \in futures
    /\ \A t \in futures \ {s} : state[t] \notin {"Connecting", "WaitReconnect"}

Polled(s) == pc = "Running" /\ s \in futures

\* Variant: a task is spawned on every turn that is not Ready or waiting.
SpawnAllowedEager(s) == state[s] \in {"NotConnected", "Connecting"}

\* The arm of the match that spawns the connect task.
SpawnAllowed(s) == state[s] = "NotConnected"

\* ConnectionState::NotConnected: spawn the connect task, yield None.
StepNotConnected(s) ==
    /\ Polled(s)
    /\ SpawnAllowed(s)
    /\ state' = [state EXCEPT ![s] = "Connecting"]
    /\ task' = [task EXCEPT ![s] = "connecting"]
    /\ Yield(s, NoneItem)
    /\ UNCHANGED <<pc, panic_msg, cfgVars, feed, fanVars, futures, timer, sinceSub, up, active>>

\* Variants: a failed subscribe retried at once; a task fault taken for an error.
AfterTaskRetryNow(result) == IF result = "ok" THEN "Ready" ELSE "NotConnected"

TaskFatalNever(result) == FALSE

\* The state that follows the connect task's Ok(Ok(stream)) or Ok(Err(e)).
AfterTask(result) == IF result = "ok" THEN "Ready" ELSE "WaitReconnect"

\* The JoinHandle yielded Err(JoinError): the arm that panics.
TaskFatal(result) == result = "fault"

\* ConnectionState::Connecting: the awaited task has finished.
StepConnecting(s) ==
    /\ Polled(s)
    /\ state[s] = "Connecting"
    /\ task[s] \in {"ok", "err", "fault"}
    /\ task' = [task EXCEPT ![s] = "none"]
    /\ IF TaskFatal(task[s])
       THEN /\ pc' = "Panicked"
            /\ panic_msg' = "Task aborted - should not happen"
            /\ UNCHANGED <<state, filterVars>>
       ELSE /\ state' = [state EXCEPT ![s] = AfterTask(task[s])]
            /\ Yield(s, NoneItem)
            /\ UNCHANGED <<pc, panic_msg>>
    /\ UNCHANGED <<cfgVars, feed, fanVars, futures, timer, sinceSub, up, active>>

\* Variant: the stream handle outlives the failed subscription.
ActiveAfterItemLeak(s, next) == active[s]

\* Variant: the update of an Ok item is not passed on.
ItemOfLossy(result, update) == NoneItem

\* The item yielded for what geyser_stream.next() returned.
ItemOf(result, update) == IF result = "ok" THEN update ELSE NoneItem

\* Variant: a failed stream is reconnected without the backoff.
AfterItemRetryNow(got) == IF got = "ok" THEN "Ready" ELSE "NotConnected"

\* The state that follows what geyser_stream.next() returned.
AfterItem(got) == IF got = "ok" THEN "Ready" ELSE "WaitReconnect"

\* The subscriptions of s once the stream handle of a Ready connector that moves
\* to state `next` has gone out of scope.
ActiveAfterItem(s, next) == IF next = "Ready" THEN active[s] ELSE active[s] - 1

\* ConnectionState::Ready: Some(Ok(update)), Some(Err(status)) or None.
StepReady(s) ==
    /\ Polled(s)
    /\ state[s] = "Ready"
    /\ \/ /\ up[s]
          /\ scripted \/ Len(delivered) < MaxArrivals
          /\ \E u \in NextUpdates(s) :
                /\ state' = [state EXCEPT ![s] = AfterItem("ok")]
                /\ active' = [active EXCEPT ![s] = ActiveAfterItem(s, AfterItem("ok"))]
                /\ feed' = FeedAfter(s)
                /\ Yield(s, ItemOf("ok", u))
       \/ /\ ~up[s]
          /\ \E result \in {"err", "end"} :
                /\ state' = [state EXCEPT ![s] = AfterItem(result)]
                /\ active' = [active EXCEPT ![s] = ActiveAfterItem(s, AfterItem(result))]
                /\ feed' = feed
                /\ Yield(s, ItemOf(result, NoneItem))
    /\ UNCHANGED <<pc, panic_msg, cfgVars, fanVars, futures, task, timer, sinceSub, up>>

\* ConnectionState::WaitReconnect, first poll: the sleep is created.
ArmSleep(s) ==
    /\ Polled(s)
    /\ state[s] = "WaitReconnect"
    /\ timer[s] = -1
    /\ timer' = [timer EXCEPT ![s] = BackoffSecs]
    /\ UNCHANGED <<pc, panic_msg, cfgVars, feed, fanVars, futures, state, task, sinceSub, up,
                   active, filterVars>>

\* Variants: the sleep is not awaited; the arm stays in WaitReconnect.
SleepSkipped(s) == TRUE

AfterSleepStay == "WaitReconnect"

SleepElapsed(s) == timer[s] = 0

\* The state the WaitReconnect arm returns.
AfterSleep == "NotConnected"

\* ConnectionState::WaitReconnect: the sleep has returned, yield None.
StepWaitReconnect(s) ==
    /\ Polled(s)
    /\ state[s] = "WaitReconnect"
    /\ SleepElapsed(s)
    /\ state' = [state EXCEPT ![s] = AfterSleep]
    /\ timer' = [timer EXCEPT ![s] = -1]
    /\ Yield(s, NoneItem)
    /\ UNCHANGED <<pc, panic_msg, cfgVars, feed, fanVars, futures, task, sinceSub, up, active>>

Step(s) ==
    \/ StepNotConnected(s)
    \/ StepConnecting(s)
    \/ StepReady(s)
    \/ ArmSleep(s)
    \/ StepWaitReconnect(s)

----------------------------------------------------------------------------
\* The spawned connect task (tokio::spawn), run by the runtime

\* The connector of s holds the task's JoinHandle.
Joined(s) == s \in futures /\ state[s] = "Connecting"

\* GeyserGrpcClient::connect_with_timeout(..).await, and the `?` on its result.
TaskConnect(s) ==
    /\ task[s] = "connecting"
    /\ task' = [task EXCEPT ![s] = IF up[s] THEN "subscribing" ELSE "err"]
    /\ UNCHANGED <<pc, panic_msg, cfgVars, feed, fanVars, futures, state, timer, sinceSub, up,
                   active, filterVars>>

\* client.subscribe_once(..).await: the subscribe call reaches the upstream.
TaskSubscribe(s) ==
    /\ task[s] = "subscribing"
    /\ task' = [task EXCEPT ![s] = IF up[s] THEN "ok" ELSE "err"]
    /\ active' = [active EXCEPT ![s] = IF up[s] THEN @ + 1 ELSE @]
    /\ sinceSub' = [sinceSub EXCEPT ![s] = 0]
    /\ UNCHANGED <<pc, panic_msg, cfgVars, feed, fanVars, futures, state, timer, up, filterVars>>

\* The task panics or is cancelled by the runtime: its JoinHandle yields Err.
TaskFault(s) ==
    /\ task[s] \in {"connecting", "subscribing"}
    /\ task' = [task EXCEPT ![s] = "fault"]
    /\ UNCHANGED <<pc, panic_msg, cfgVars, feed, fanVars, futures, state, timer, sinceSub, up,
                   active, filterVars>>

\* A finished task whose JoinHandle was dropped: the runtime drops its output.
TaskOutputDrop(s) ==
    /\ task[s] \in {"ok", "err", "fault"}
    /\ ~Joined(s)
    /\ task' = [task EXCEPT ![s] = "none"]
    /\ active' = [active EXCEPT ![s] = IF task[s] = "ok" THEN @ - 1 ELSE @]
    /\ UNCHANGED <<pc, panic_msg, cfgVars, feed, fanVars, futures, state, timer, sinceSub, up, filterVars>>

----------------------------------------------------------------------------
\* The environment: the clock, the upstreams, the consumer

Tick ==
    /\ \E s \in Sources : timer[s] > 0 \/ sinceSub[s] \in 0..(BackoffSecs - 1)
    /\ timer' = [s \in Sources |-> IF timer[s] > 0 THEN timer[s] - 1 ELSE timer[s]]
    /\ sinceSub' = [s \in Sources |->
                      IF sinceSub[s] \in 0..(BackoffSecs - 1)
                      THEN sinceSub[s] + 1 ELSE sinceSub[s]]
    /\ UNCHANGED <<pc, panic_msg, cfgVars, feed, fanVars, futures, state, task, up, active, filterVars>>

InUse(s) == s \in futures \/ task[s] # "none"

Break(s) ==
    /\ InUse(s)
    /\ up[s]
    /\ up' = [up EXCEPT ![s] = FALSE]
    /\ UNCHANGED <<pc, panic_msg, cfgVars, feed, fanVars, futures, state, task, timer,
                   sinceSub, active, filterVars>>

Heal(s) ==
    /\ InUse(s)
    /\ ~up[s]
    /\ up' = [up EXCEPT ![s] = TRUE]
    /\ UNCHANGED <<pc, panic_msg, cfgVars, feed, fanVars, futures, state, task, timer,
                   sinceSub, active, filterVars>>

\* What dropping the connector of s releases: the stream handle of Ready, the
\* output of a finished task whose JoinHandle it holds.
ReleasedByDrop(s) ==
    IF state[s] = "Ready" \/ (state[s] = "Connecting" /\ task[s] = "ok")
    THEN 1 ELSE 0

\* The task of s after its JoinHandle has been dropped: a running task is
\* detached and keeps running, a finished one gives up its output.
TaskAfterDrop(s) ==
    IF state[s] = "Connecting" /\ task[s] \in {"ok", "err", "fault"}
    THEN "none" ELSE task[s]

\* The consumer drops the output stream: every generator frame is dropped.
DropOutput ==
    /\ pc = "Running" \/ (pc = "Panicked" /\ futures # {})
    /\ pc' = "Dropped"
    /\ futures' = {}
    /\ active' = [s \in Sources |->
                    IF s \in futures THEN active[s] - ReleasedByDrop(s)
                    ELSE active[s]]
    /\ task' = [s \in Sources |->
                    IF s \in futures THEN TaskAfterDrop(s) ELSE task[s]]
    /\ state' = [s \in Sources |-> "NotConnected"]
    /\ timer' = [s \in Sources |-> -1]
    /\ UNCHANGED <<panic_msg, cfgVars, feed, fanVars, sinceSub, up, filterVars>>

----------------------------------------------------------------------------
\* channelize_stream (src/src/grpc_stream_utils.rs): the broadcast fanout

\* tokio::sync::broadcast::channel rounds the capacity it is asked for up to
\* the next power of two: that many of the latest items are retained.
RECURSIVE PowerOfTwoFrom(_, _)
PowerOfTwoFrom(p, n) == IF p >= n THEN p ELSE PowerOfTwoFrom(2 * p, n)

BufferLen == PowerOfTwoFrom(1, Capacity)

\* What a recv call returns.
Item(v) == [k |-> "item", v |-> v]
Lagged(missed) == [k |-> "lagged", v |-> missed]
Closed == [k |-> "closed", v |-> 0]

Attached == {r \in Receivers : rx[r].attached}

\* The Sender lives in the forwarder task and is dropped when the task ends.
SenderDropped == fwd \notin {"idle", "running"}

\* channelize_stream: the channel with its first receiver, the task spawned.
channelize_stream ==
    /\ fwd = "idle"
    /\ fwd' = "running"
    /\ rx' = [rx EXCEPT ![1] = [attached |-> TRUE, gone |-> FALSE, from |-> 0,
                                next |-> 0, since |-> 0]]
    /\ UNCHANGED <<muxVars, consumed, chan, recv_log>>

\* Variants: send waits for room in the buffer; send keeps an item that has no
\* receiver.
ForwardBlocking == \A r \in Attached : Len(chan) - rx[r].next < BufferLen

SendAcceptedAlways == TRUE

\* Whether the forwarder can take its turn: tx.send never waits.
ForwardReady == TRUE

\* tx.send(payload) is Ok when a receiver is attached, Err(SendError) otherwise.
SendAccepted == Attached # {}

\* One turn of 'main_loop: source_stream.next() gave Some(payload).
Forward ==
    /\ fwd = "running"
    /\ consumed < MaxItems
    /\ ForwardReady
    /\ consumed' = consumed + 1
    /\ chan' = IF SendAccepted THEN Append(chan, consumed + 1) ELSE chan
    /\ UNCHANGED <<muxVars, fwd, rx, recv_log>>

\* Variant: the task returns when its source ends.
AfterSourceEndQuiet == "done"

\* The task after source_stream.next() gave None: panic!("channelizer task
\* failed").
AfterSourceEnd == "panicked"

SourceEnds ==
    /\ fwd = "running"
    /\ fwd' = AfterSourceEnd
    /\ UNCHANGED <<muxVars, consumed, chan, rx, recv_log>>

\* The last recv call of receiver r returned RecvError::Closed.
SawClosed(r) ==
    IF Len(recv_log[r]) = 0 THEN FALSE
    ELSE recv_log[r][Len(recv_log[r])].k = "closed"

\* Variant: a lagging receiver resumes at the newest item.
ResumeAtNewest == Len(chan) - 1

ResumeAt == Len(chan) - BufferLen

\* Receiver::recv of receiver r returns.
Recv(r) ==
    /\ rx[r].attached
    /\ IF Len(chan) - rx[r].next > BufferLen
       THEN /\ rx' = [rx EXCEPT ![r].next = ResumeAt]
            /\ recv_log' = [recv_log EXCEPT ![r] = Append(@, Lagged(ResumeAt - rx[r].next))]
       ELSE IF Len(chan) > rx[r].next
       THEN /\ rx' = [rx EXCEPT ![r].next = @ + 1]
            /\ recv_log' = [recv_log EXCEPT ![r] = Append(@, Item(chan[rx[r].next + 1]))]
       ELSE /\ SenderDropped
            /\ ~SawClosed(r)
            /\ rx' = rx
            /\ recv_log' = [recv_log EXCEPT ![r] = Append(@, Closed)]
    /\ UNCHANGED <<muxVars, fwd, consumed, chan>>

\* Variant: a new receiver starts at the oldest retained item.
StartAtOldest == IF Len(chan) > BufferLen THEN Len(chan) - BufferLen ELSE 0

\* Where a receiver made by resubscribe starts: at the tail of the channel.
StartAt == Len(chan)

\* Receiver::resubscribe on receiver r makes receiver q.
Resubscribe(r, q) ==
    /\ rx[r].attached
    /\ ~rx[q].attached /\ ~rx[q].gone
    /\ rx' = [rx EXCEPT ![q] = [attached |-> TRUE, gone |-> FALSE,
                                from |-> StartAt, next |-> StartAt,
                                since |-> consumed]]
    /\ UNCHANGED <<muxVars, fwd, consumed, chan, recv_log>>

\* Receiver r is dropped.
DropReceiver(r) ==
    /\ rx[r].attached
    /\ rx' = [rx EXCEPT ![r].attached = FALSE, ![r].gone = TRUE]
    /\ UNCHANGED <<muxVars, fwd, consumed, chan, recv_log>>

NextFanout ==
    \/ channelize_stream
    \/ Forward
    \/ SourceEnds
    \/ \E r \in Receivers : Recv(r)
    \/ \E r, q \in Receivers : Resubscribe(r, q)
    \/ \E r \in Receivers : DropReceiver(r)

\* The fanout alone, fed by a source of its own.
InitFanout ==
    /\ grpc_sources = 0
    /\ commitment_config = "Confirmed"
    /\ extractor = "ExtractBlock"
    /\ scripted = FALSE
    /\ feed = [s \in Sources |-> <<>>]
    /\ InitConnectors
    /\ InitFanoutIdle

SpecFanout == InitFanout /\ [][NextFanout]_vars

\* The forwarder task is scheduled, and a receiver that is attached goes on
\* calling recv.
FairnessFanout ==
    /\ WF_vars(channelize_stream)
    /\ WF_vars(Forward)
    /\ WF_vars(SourceEnds)
    /\ \A r \in Receivers : WF_vars(Recv(r))

SpecFanoutLive == InitFanout /\ [][NextFanout]_vars /\ FairnessFanout

----------------------------------------------------------------------------
Next ==
    \/ create_multiplex
    \/ \E s \in Sources : Step(s)
    \/ \E s \in Sources : TaskConnect(s)
    \/ \E s \in Sources : TaskSubscribe(s)
    \/ \E s \in Sources : TaskFault(s)
    \/ \E s \in Sources : TaskOutputDrop(s)
    \/ Tick
    \/ \E s \in Sources : Break(s)
    \/ \E s \in Sources : Heal(s)
    \/ DropOutput

Spec == Init /\ [][Next]_vars

\* The runs of one connector on which the connector keeps being polled, the
\* runtime keeps running the spawned task and the clock advances.
InitLive ==
    /\ Init
    /\ grpc_sources = 1
    /\ commitment_config = "Confirmed"
    /\ extractor = "ExtractBlock"

Fairness ==
    /\ WF_vars(create_multiplex)
    /\ WF_vars(Tick)
    /\ \A s \in Sources :
          /\ WF_vars(Step(s))
          /\ WF_vars(TaskConnect(s))
          /\ WF_vars(TaskSubscribe(s))

SpecLive == InitLive /\ [][Next]_vars /\ Fairness

\* The worked example: two sources, the first sending the blocks of ScriptA,
\* the second those of ScriptB.
InitScenario ==
    /\ grpc_sources = 2
    /\ commitment_config = "Confirmed"
    /\ extractor = "ExtractBlock"
    /\ scripted = TRUE
    /\ feed = [s \in Sources |->
                 IF s = 1 THEN ScriptA ELSE IF s = 2 THEN ScriptB ELSE <<>>]
    /\ InitConnectors
    /\ InitFanoutIdle

SpecScenario == InitScenario /\ [][Next]_vars

\* Two sources that each have the blocks of slots 1 and 2 to send, on runs on
\* which the connectors keep being polled, the runtime keeps running the
\* spawned tasks and the clock advances.
InitShort ==
    /\ grpc_sources = 2
    /\ commitment_config = "Confirmed"
    /\ extractor = "ExtractBlock"
    /\ scripted = TRUE
    /\ feed = [s \in Sources |-> IF s <= 2 THEN ScriptShort ELSE <<>>]
    /\ InitConnectors
    /\ InitFanoutIdle

SpecShort == InitShort /\ [][Next]_vars

SpecShortLive == InitShort /\ [][Next]_vars /\ Fairness

TypeOK ==
    /\ pc \in {"Init", "Running", "Panicked", "Dropped"}
    /\ grpc_sources \in 0..NumSources
    /\ commitment_config \in Commitments
    /\ extractor \in Extractors
    /\ futures \subseteq Sources
    /\ state \in [Sources -> ConnectionState]
    /\ task \in [Sources -> TaskStates]
    /\ timer \in [Sources -> -1..BackoffSecs]
    /\ sinceSub \in [Sources -> -1..BackoffSecs]
    /\ up \in [Sources -> BOOLEAN]
    /\ active \in [Sources -> 0..2]
    /\ current_slot \in 0..MaxSlot \cup ScriptSlots
    /\ scripted \/ Len(delivered) <= MaxArrivals
    /\ scripted \in BOOLEAN
    /\ \A s \in Sources : \A i \in 1..Len(feed[s]) : feed[s][i] \in ScriptSlots
    /\ last_yield.src \in 0..NumSources
    /\ fwd \in {"idle", "running", "panicked"}
    /\ consumed \in 0..MaxItems
    /\ Len(chan) <= consumed
    /\ \A r \in Receivers : rx[r].next \in 0..Len(chan)

----------------------------------------------------------------------------
\* Properties

EK == ExtractedKind(extractor)

Extractable(i) == delivered[i].kind = EK

\* The slots yielded before entry i of `delivered` reached the filter.
EmittedBefore(i) == {out[j].slot : j \in {k \in 1..Len(out) : out[k].at < i}}

SetMin(S) == IF S = {} THEN 0 ELSE CHOOSE x \in S : \A y \in S : x <= y

\* C1: the blocks yielded by create_multiplex are strictly increasing in slot,
\* and current_slot starts at 0 and never decreases.
C1_OutStrictlyIncreasing ==
    \A i, j \in 1..Len(out) : i < j => out[i].slot < out[j].slot

C1_Monotone ==
    /\ current_slot = 0
    /\ []C1_OutStrictlyIncreasing
    /\ [][current_slot' >= current_slot]_vars

\* Two sources have each had a block yielded, and a later, older block of the
\* extracted variant has been dropped.
C1_Witness ==
    /\ Len(out) = 2
    /\ out[1].src # out[2].src
    /\ Len(delivered) = 3
    /\ Extractable(3)
    /\ delivered[3].slot < current_slot

\* C2: an update of the extracted variant whose slot is above every slot yielded
\* before it arrived has exactly one block yielded for its slot.
C2_ExactlyOnce ==
    \A i \in 1..Len(delivered) :
        (Extractable(i) /\ \A e \in EmittedBefore(i) : delivered[i].slot > e)
            => Cardinality({j \in 1..Len(out) : out[j].slot = delivered[i].slot}) = 1

\* Both sources delivered the same new slot, after an update of the other
\* variant, and one block was yielded for it.
C2_Witness ==
    /\ Len(delivered) = 3
    /\ ~Extractable(1)
    /\ Extractable(2) /\ Extractable(3)
    /\ delivered[2].slot = delivered[3].slot
    /\ delivered[2].src # delivered[3].src
    /\ delivered[1].slot >= delivered[2].slot
    /\ Len(out) = 1

\* C3: the block yielded for a slot is that of the first update for the slot to
\* reach the filter; a later update for the same slot yields nothing.
C3_FirstWins ==
    /\ \A j \in 1..Len(out) :
          /\ out[j].at \in 1..Len(delivered)
          /\ out[j].at = SetMin({i \in 1..Len(delivered) :
                                   Extractable(i) /\ delivered[i].slot = out[j].slot})
          /\ out[j].src = delivered[out[j].at].src
    /\ \A i, k \in 1..Len(delivered) :
          (i < k /\ Extractable(i) /\ Extractable(k)
                 /\ delivered[i].slot = delivered[k].slot)
              => \A j \in 1..Len(out) : out[j].at # k

\* Source 2 delivered a slot first, source 1 delivered it second, and the one
\* block is source 2's.
C3_Witness ==
    /\ Len(delivered) >= 2
    /\ Extractable(1) /\ Extractable(2)
    /\ delivered[1].src = 2 /\ delivered[2].src = 1
    /\ delivered[1].slot = delivered[2].slot
    /\ Len(out) = 1
    /\ out[1].src = 2

\* The subscribe call of source s reaches the upstream in this step.
SubscribeCall(s) == task[s] = "subscribing" /\ task'[s] \in {"ok", "err"}

\* C4: a source never has two live upstream subscriptions, and its subscribe
\* call is made only when it has none: the previous stream handle is released.
C4_OneSubscription ==
    /\ [](\A s \in Sources : active[s] <= 1)
    /\ [][\A s \in Sources :
            SubscribeCall(s) => active[s] = 0 /\ state[s] # "Ready"]_vars

\* A source that delivered updates on an earlier subscription is about to
\* subscribe again.
C4_Witness ==
    \E s \in Sources :
        /\ pc = "Running"
        /\ task[s] = "subscribing"
        /\ active[s] = 0
        /\ LastSlotIn(delivered, s) > 0

\* C6: once the output is dropped, no connect task goes on to subscribe: no
\* subscribe call of any source is made after the drop.
C6_NoSubscribeAfterDrop ==
    [][pc = "Dropped" => \A s \in Sources : ~SubscribeCall(s)]_vars

\* What does hold of a drop: the stream handle of a Ready connector and the
\* output of a finished task are released at once, so a subscription that is
\* live after the drop belongs to a detached task that has just completed.
DropReleasesHandles ==
    pc = "Dropped" => \A s \in Sources : active[s] = 1 => task[s] = "ok"

\* C7: a source's subscribe call comes a full backoff after its previous one,
\* and a connector leaves WaitReconnect only when its sleep has elapsed.
C7_BackoffBetweenSubscribes ==
    /\ [][\A s \in Sources :
            SubscribeCall(s) => sinceSub[s] = -1 \/ sinceSub[s] >= BackoffSecs]_vars
    /\ [][\A s \in Sources :
            (pc' = "Running" /\ state[s] = "WaitReconnect"
                             /\ state'[s] # "WaitReconnect")
                => timer[s] = 0 /\ state'[s] = "NotConnected"]_vars

\* A source is about to subscribe again, a full backoff after its last call.
C7_Witness ==
    \E s \in Sources :
        /\ pc = "Running"
        /\ task[s] = "subscribing"
        /\ sinceSub[s] = BackoffSecs

\* The connector of s consumes a failed connect or subscribe in this step.
TaskErrStep(s) ==
    /\ pc' = "Running"
    /\ state[s] = "Connecting" /\ task[s] = "err" /\ task'[s] = "none"

\* The connector of s, Ready on a failing upstream, takes a turn in this step:
\* its stream yielded an error item or ended.
StreamErrStep(s) ==
    /\ pc' = "Running"
    /\ state[s] = "Ready" /\ ~up[s]
    /\ state'[s] # "Ready" \/ active'[s] # active[s]

\* C8: a failed connect or subscribe, an error item and the end of the stream
\* each move the source to WaitReconnect and yield None: nothing reaches the
\* filter, and the output holds only blocks that a source delivered.
C8_ErrorsBecomeNone ==
    /\ [][\A s \in Sources :
            (TaskErrStep(s) \/ StreamErrStep(s))
                => /\ state'[s] = "WaitReconnect"
                   /\ <<current_slot, out, delivered>>' = <<current_slot, out, delivered>>
                   /\ panic_msg' = panic_msg]_vars
    /\ [](\A j \in 1..Len(out) :
            /\ out[j].at \in 1..Len(delivered)
            /\ delivered[out[j].at] = [src |-> out[j].src, kind |-> EK,
                                       slot |-> out[j].slot])

\* A source that delivered a block waits to reconnect while its upstream is
\* down, and the consumer has seen only that block.
C8_Witness ==
    \E s \in Sources :
        /\ pc = "Running"
        /\ state[s] = "WaitReconnect"
        /\ ~up[s]
        /\ Len(out) = 1
        /\ out[1].src = s

\* The connector of s consumes the JoinError of its connect task in this step.
TaskFaultStep(s) ==
    /\ pc = "Running" /\ pc' # "Dropped"
    /\ state[s] = "Connecting" /\ task[s] = "fault" /\ task'[s] = "none"

\* C9: a connect task that ends in a JoinError makes the connector panic: it
\* does not move to WaitReconnect, and after the panic no connector takes a
\* turn, spawns a task or yields an item.
C9_TaskFaultFatal ==
    /\ [][\A s \in Sources :
            TaskFaultStep(s)
                => /\ pc' = "Panicked"
                   /\ panic_msg' = "Task aborted - should not happen"
                   /\ state' = state
                   /\ <<current_slot, out, delivered>>' = <<current_slot, out, delivered>>]_vars
    /\ [][pc = "Panicked"
            => /\ pc' \in {"Panicked", "Dropped"}
               /\ <<current_slot, out, delivered>>' = <<current_slot, out, delivered>>
               /\ \A s \in Sources :
                     /\ task[s] = "none" => task'[s] = "none"
                     /\ pc' = "Panicked" => state'[s] = state[s]]_vars

\* The stream has panicked on a task fault after it yielded a block.
C9_Witness ==
    /\ pc = "Panicked"
    /\ panic_msg = "Task aborted - should not happen"
    /\ Len(out) >= 1

BadConfig ==
    grpc_sources = 0 \/ commitment_config \notin {"Confirmed", "Finalized"}

\* C10: with an empty source list or a commitment other than Confirmed and
\* Finalized, create_multiplex panics with no connector built, no connect task
\* spawned and no subscribe call made; it builds the connectors otherwise.
C10_ConstructionFails ==
    /\ (BadConfig /\ pc # "Init")
          => /\ pc = "Panicked"
             /\ futures = {}
             /\ \A s \in Sources :
                   /\ state[s] = "NotConnected"
                   /\ task[s] = "none"
                   /\ sinceSub[s] = -1
                   /\ active[s] = 0
    /\ (~BadConfig /\ pc = "Running") => futures = 1..grpc_sources

\* create_multiplex has panicked on an empty list of sources.
C10_Witness ==
    /\ pc = "Panicked"
    /\ grpc_sources = 0
    /\ commitment_config = "Confirmed"
    /\ panic_msg = "Must have at least one source"

\* The connector of s is polled and its upstream accepts connections.
Healthy(s) == pc = "Running" /\ s \in futures /\ up[s]

\* The updates source s has delivered.
CountFrom(s) == Cardinality({i \in 1..Len(delivered) : delivered[i].src = s})

\* C5: there is no limit on retries: whatever failures came before, a connector
\* whose upstream stays healthy reaches Ready again, and once Ready it delivers
\* the updates of its source.
C5_RetriesUntilReady ==
    /\ \A s \in Sources : []<>(~Healthy(s) \/ state[s] = "Ready")
    /\ \A s \in Sources : \A n \in 0..(MaxArrivals - 1) :
          (Healthy(s) /\ state[s] = "Ready" /\ CountFrom(s) = n)
              ~> (~Healthy(s) \/ CountFrom(s) > n \/ Len(delivered) >= MaxArrivals)

\* A source whose first subscription failed after it delivered an update has
\* connected and subscribed again.
C5_Witness ==
    \E s \in Sources :
        /\ Healthy(s)
        /\ state[s] = "Connecting"
        /\ task[s] = "ok"
        /\ CountFrom(s) >= 1

AllowedTransitions ==
    { <<"NotConnected", "Connecting">>, <<"Connecting", "Ready">>,
      <<"Connecting", "WaitReconnect">>, <<"Ready", "WaitReconnect">>,
      <<"WaitReconnect", "NotConnected">> }

\* C16: a connector starts in NotConnected, and as long as it exists its state
\* changes only along NotConnected -> Connecting, Connecting -> Ready,
\* Connecting -> WaitReconnect, Ready -> WaitReconnect and WaitReconnect ->
\* NotConnected: Ready is entered from Connecting only.
C16_Transitions ==
    /\ \A s \in Sources : state[s] = "NotConnected"
    /\ [][pc = "Init" => \A s \in futures' : state'[s] = "NotConnected"]_vars
    /\ [][\A s \in Sources :
            (pc' # "Dropped" /\ state'[s] # state[s])
                => <<state[s], state'[s]>> \in AllowedTransitions]_vars

\* A source that subscribed and delivered an update has lost its stream, has
\* waited and is back in NotConnected.
C16_Witness ==
    \E s \in Sources :
        /\ pc = "Running"
        /\ state[s] = "NotConnected"
        /\ task[s] = "none"
        /\ sinceSub[s] >= 0
        /\ CountFrom(s) >= 1

\* The last update that reached the filter.
LastDelivered == delivered[Len(delivered)]

\* An update reaches the filter in this step.
Arrives == Len(delivered') = Len(delivered) + 1

\* C18: an item that is None, an update of another variant and an update whose
\* slot is not above current_slot yield nothing and leave current_slot as it
\* is; current_slot changes only when a block is yielded, to that block's slot.
C18_FilterFrame ==
    /\ [][delivered' = delivered
            => out' = out /\ current_slot' = current_slot]_vars
    /\ [][Arrives =>
            IF LastDelivered'.kind = EK /\ LastDelivered'.slot > current_slot
            THEN /\ Len(out') = Len(out) + 1
                 /\ out'[Len(out')].slot = LastDelivered'.slot
                 /\ current_slot' = LastDelivered'.slot
            ELSE out' = out /\ current_slot' = current_slot]_vars
    /\ [][current_slot' # current_slot
            => /\ Len(out') = Len(out) + 1
               /\ current_slot' = out'[Len(out')].slot]_vars

\* A block was yielded, then an update of the other variant and a block of an
\* older slot were dropped.
C18_Witness ==
    /\ Len(delivered) = 3
    /\ Len(out) = 1
    /\ out[1].at = 1
    /\ ~Extractable(2)
    /\ Extractable(3)
    /\ delivered[3].slot < current_slot

\* The connector of s spawns a connect task in this step.
Spawns(s) == task'[s] = "connecting" /\ task[s] # "connecting"

\* C20: a live connector has at most one connect task: it spawns one only on a
\* turn in NotConnected, when none is left of the one before; it has a task
\* only while it is Connecting; and it is back in NotConnected only from
\* WaitReconnect, when the sleep has elapsed.
C20_OneTaskInFlight ==
    /\ [][\A s \in Sources :
            Spawns(s) => /\ pc = "Running"
                         /\ state[s] = "NotConnected"
                         /\ task[s] = "none"]_vars
    /\ [](\A s \in Sources :
            (pc = "Running" /\ s \in futures /\ task[s] # "none")
                => state[s] = "Connecting")
    /\ [][\A s \in Sources :
            (pc' = "Running" /\ state[s] # "NotConnected"
                             /\ state'[s] = "NotConnected")
                => /\ state[s] = "WaitReconnect"
                   /\ timer[s] = 0
                   /\ task[s] = "none"]_vars

\* A source whose earlier task subscribed is running its next connect task, a
\* full backoff later.
C20_Witness ==
    \E s \in Sources :
        /\ pc = "Running"
        /\ state[s] = "Connecting"
        /\ task[s] = "connecting"
        /\ sinceSub[s] = BackoffSecs

----------------------------------------------------------------------------
\* Properties of the fanout

\* The last thing recv returned to receiver r.
LastRecv(r) == recv_log[r][Len(recv_log[r])]

\* A recv call of receiver r returns in this step.
RecvStep(r) == recv_log'[r] # recv_log[r]

\* The forwarder takes an item from its source in this step.
ForwardStep == consumed' = consumed + 1

\* The items receiver r has not received yet.
Pending(r) == Len(chan) - rx[r].next

\* How far a log of recv results moved its receiver along the channel.
RECURSIVE Advance(_)
Advance(log) ==
    IF log = <<>> THEN 0
    ELSE LET e == log[Len(log)]
         IN Advance(SubSeq(log, 1, Len(log) - 1))
              + (IF e.k = "item" THEN 1 ELSE IF e.k = "lagged" THEN e.v ELSE 0)

\* Every item a receiver got is the one at its position in the channel, the
\* items a lagged signal reported as missed being skipped.
ReceivedByPosition ==
    \A r \in Receivers :
        /\ rx[r].next = rx[r].from + Advance(recv_log[r])
        /\ \A i \in 1..Len(recv_log[r]) :
              recv_log[r][i].k = "item"
                  => recv_log[r][i].v
                       = chan[rx[r].from + Advance(SubSeq(recv_log[r], 1, i))]

\* The forwarder is not held up, whatever its receivers have left unreceived,
\* and what it sends while a receiver is attached enters the channel.
ForwarderNeverWaits ==
    /\ []((fwd = "running" /\ consumed < MaxItems) => ENABLED Forward)
    /\ [][(ForwardStep /\ Attached # {})
            => chan' = Append(chan, consumed + 1)]_vars

\* C11 as stated, for the capacity asked of the channel: a receiver with more
\* than Capacity items unreceived gets a lagged signal from its next recv and
\* resumes at the most recent Capacity items.
C11_LagAtCapacity ==
    [][\A r \in Receivers :
         (RecvStep(r) /\ Pending(r) > Capacity)
             => /\ LastRecv(r)'.k = "lagged"
                /\ rx'[r].next = Len(chan) - Capacity]_vars

\* C11, amended: the forwarder is never held up by a receiver; a receiver with
\* more than BufferLen items unreceived gets a lagged signal from its next recv,
\* which reports the items it missed, and then receives the most recent
\* BufferLen items; BufferLen is the capacity rounded up to a power of two.
C11_LagAtBufferLen ==
    /\ ForwarderNeverWaits
    /\ []ReceivedByPosition
    /\ [][\A r \in Receivers :
            RecvStep(r) =>
                IF Pending(r) > BufferLen
                THEN /\ LastRecv(r)' = Lagged(Pending(r) - BufferLen)
                     /\ rx'[r].next = Len(chan) - BufferLen
                ELSE LastRecv(r)'.k # "lagged"]_vars

\* The first receiver received nothing while the forwarder sent more items
\* than the buffer holds, was told that it missed one, and then received the
\* BufferLen most recent ones.
C11_Witness ==
    /\ consumed = BufferLen + 1
    /\ Len(chan) = consumed
    /\ Len(recv_log[1]) = BufferLen + 1
    /\ recv_log[1][1] = Lagged(1)
    /\ \A i \in 2..(BufferLen + 1) : recv_log[1][i] = Item(i)

\* C12: an item sent while no receiver is attached is dropped, and the
\* forwarder, not held up and not panicking, goes on to the next item; what a
\* receiver gets are items taken from the source after it was attached.
C12_DropsWithoutReceivers ==
    /\ [][(ForwardStep /\ Attached = {})
            => chan' = chan /\ fwd' = "running"]_vars
    /\ []((fwd = "running" /\ consumed < MaxItems /\ Attached = {})
            => ENABLED Forward)
    /\ [](\A r \in Receivers : \A i \in 1..Len(recv_log[r]) :
            recv_log[r][i].k = "item" => recv_log[r][i].v > rx[r].since)

\* Two items were dropped for want of a receiver while the forwarder ran on,
\* after a receiver attached by resubscribe had received an item.
C12_Witness ==
    /\ fwd = "running"
    /\ Attached = {}
    /\ consumed - Len(chan) >= 2
    /\ \E q \in Receivers :
          /\ rx[q].since > 0
          /\ Len(recv_log[q]) >= 1
          /\ recv_log[q][1].k = "item"

\* C13: the forwarder task ends only by its panic, when its source has ended;
\* the channel is then closed, and every receiver that stays attached drains
\* what was sent and is told that the channel is closed.
C13_SourceEndPanics ==
    /\ [][fwd' # fwd => fwd' \in {"running", "panicked"}]_vars
    /\ [](\A r \in Receivers :
            SawClosed(r) => fwd = "panicked" /\ Pending(r) = 0)
    /\ \A r \in Receivers :
          (fwd = "panicked" /\ rx[r].attached)
              ~> (~rx[r].attached \/ SawClosed(r))

\* A receiver that lagged behind has drained the channel after the panic and
\* has been told that it is closed.
C13_Witness ==
    \E r \in Receivers :
        /\ fwd = "panicked"
        /\ rx[r].attached
        /\ SawClosed(r)
        /\ Len(recv_log[r]) >= 3
        /\ recv_log[r][1].k = "lagged"

NeverLagged(r) == \A i \in 1..Len(recv_log[r]) : recv_log[r][i].k # "lagged"

ItemsOf(r) == SelectSeq(recv_log[r], LAMBDA e : e.k = "item")

\* C19: a receiver that never lagged got the items the forwarder took from its
\* source since it was attached, in source order and each once, and all of
\* them once it has drained the channel; two such receivers got the same
\* items wherever both were attached.
C19_FanoutKeepsOrder ==
    \A r \in Receivers :
        NeverLagged(r) =>
            /\ \A i \in 1..Len(ItemsOf(r)) : ItemsOf(r)[i] = Item(rx[r].since + i)
            /\ (rx[r].attached /\ Pending(r) = 0)
                  => Len(ItemsOf(r)) = consumed - rx[r].since
            /\ \A q \in Receivers :
                  (NeverLagged(q) /\ rx[q].since = rx[r].since)
                      => \A i \in 1..Len(ItemsOf(r)) :
                            i <= Len(ItemsOf(q)) => ItemsOf(q)[i] = ItemsOf(r)[i]

\* Both receivers are attached and have drained the channel: the first got
\* every item, the second those sent since it was attached.
C19_Witness ==
    /\ rx[1].attached /\ rx[2].attached
    /\ NeverLagged(1) /\ NeverLagged(2)
    /\ consumed >= 3
    /\ rx[2].since = 1
    /\ Len(ItemsOf(1)) = consumed
    /\ Len(ItemsOf(2)) = consumed - 1

----------------------------------------------------------------------------
\* Properties of scripted runs

OutSlots == [j \in 1..Len(out) |-> out[j].slot]

\* Every source has sent the whole of its script.
ScriptsDone == \A s \in Sources : feed[s] = <<>>

\* No update reached the filter after one of a higher slot.
ArrivedInSlotOrder ==
    \A i, j \in 1..Len(delivered) : i < j => delivered[i].slot <= delivered[j].slot

\* C14 as stated: once both sources of the worked example have sent all their
\* blocks, the output is 100, 101, 102, 103, 104, 105.
C14_ScenarioOutput ==
    ScriptsDone => OutSlots = <<100, 101, 102, 103, 104, 105>>

\* C14, amended: the output is 100 .. 105 when the blocks reach the merge point
\* in slot order; whatever the order, it is drawn from 100 .. 105 and ends
\* with 105.
C14_ScenarioOutputInOrder ==
    /\ (ScriptsDone /\ ArrivedInSlotOrder)
          => OutSlots = <<100, 101, 102, 103, 104, 105>>
    /\ ScriptsDone
          => /\ \A j \in 1..Len(out) : out[j].slot \in 100..105
             /\ out[Len(out)].slot = 105

\* The seven blocks arrived in slot order, source B's 102 before source A's.
C14_Witness ==
    /\ pc = "Running"
    /\ ScriptsDone
    /\ ArrivedInSlotOrder
    /\ Len(delivered) = 7
    /\ delivered[3].src = 2
    /\ Len(out) = 6

\* The connector of s is Ready on a healthy upstream whose next block is k.
ReadyWith(s, k) ==
    /\ Healthy(s)
    /\ state[s] = "Ready"
    /\ feed[s] # <<>>
    /\ Head(feed[s]) = k

\* The connector of s is not Ready: it connects, waits to reconnect or is
\* about to connect again.
Reconnecting(s) == s \in futures /\ state[s] # "Ready"

\* The connector of s hands an update to the filter in this step.
Delivers(s) ==
    /\ Len(delivered') = Len(delivered) + 1
    /\ delivered'[Len(delivered')].src = s

C15_NextBlockArrives ==
    \A s \in Sources : \A k \in {ScriptShort[i] : i \in 1..Len(ScriptShort)} :
        (ReadyWith(s, k) /\ k > current_slot)
            ~> (~Healthy(s) \/ current_slot >= k)

\* C15: whatever the other sources do, the next block of a source that stays
\* healthy reaches the filter, and it is yielded at once when its slot is above
\* current_slot: a source that fails or reconnects holds up no other.
C15_NoStarvation ==
    /\ C15_NextBlockArrives
    /\ [][\A s \in Sources :
            (Delivers(s) /\ delivered'[Len(delivered')].slot > current_slot)
                => /\ Len(out') = Len(out) + 1
                   /\ out'[Len(out')].slot = delivered'[Len(delivered')].slot
                   /\ out'[Len(out')].src = s]_vars
    /\ [](\A s \in Sources :
            (Healthy(s) /\ state[s] = "Ready" /\ feed[s] # <<>>)
                => ENABLED StepReady(s))

\* Source 1 had both its blocks yielded while source 2, whose upstream is down,
\* had failed and was waiting to reconnect, having delivered nothing.
C15_Witness ==
    /\ pc = "Running"
    /\ Len(out) = 2
    /\ out[1].src = 1 /\ out[2].src = 1
    /\ out[2].at = 2
    /\ state[2] = "WaitReconnect"
    /\ ~up[2]
    /\ sinceSub[2] >= 0

\* The connector of s completes a turn of its loop in this step.
TurnOf(s) ==
    /\ pc = "Running" /\ pc' = "Running"
    /\ state'[s] # state[s] \/ feed'[s] # feed[s]

\* The slots of the updates source s has handed to the filter.
SlotsFrom(s) ==
    LET mine == SelectSeq(delivered, LAMBDA e : e.src = s)
    IN [i \in 1..Len(mine) |-> mine[i].slot]

\* C17: every turn of a connector yields one item; the item is Some(update)
\* only on a turn in Ready on which the upstream stream gave Ok(update), and
\* then it is that update; the Some items of a source are the updates its
\* upstream sent, over all its subscriptions, in order, none lost or repeated.
C17_OneItemPerTurn ==
    /\ [][\A s \in Sources :
            TurnOf(s) => last_yield'.src = s /\ last_yield'.n # last_yield.n]_vars
    /\ [][last_yield' # last_yield
            => /\ TurnOf(last_yield'.src)
               /\ last_yield'.item.some
                     <=> (state[last_yield'.src] = "Ready" /\ up[last_yield'.src])
               /\ last_yield'.item.some
                     => /\ active[last_yield'.src] = 1
                        /\ last_yield'.item
                              = Update(EK, Head(feed[last_yield'.src]))
                        /\ Arrives
                        /\ LastDelivered'.src = last_yield'.src
                        /\ LastDelivered'.slot = last_yield'.item.slot]_vars
    /\ [][Arrives => last_yield'.item.some]_vars
    /\ [](\A s \in Sources :
            s <= 2 => SlotsFrom(s) \o feed[s] = ScriptShort)

\* A source delivered its first block, lost its stream and has subscribed
\* again, with its second block still to come.
C17_Witness ==
    \E s \in Sources :
        /\ pc = "Running"
        /\ state[s] = "Connecting"
        /\ task[s] = "ok"
        /\ SlotsFrom(s) = <<1>>
        /\ feed[s] = <<2>>

====
